---- MODULE Spec2Model ----
(***************************************************************************)
(* Model of the notebook "Part 5 - Inference and Validation (Exercises)". *)
(* The notebook's authored logic is two training runs (cell 14 without     *)
(* dropout, cell 18 with dropout), each an epoch loop holding a training   *)
(* loop over trainloader and a validation loop over testloader, followed   *)
(* by the inference cell (cell 20).  Each cell is written down as the      *)
(* list of its statements; one action per kind of statement gives the      *)
(* statement its effect on the interpreter state (Python variables, the    *)
(* model's mode, the autograd switch, the gradient buffers, the            *)
(* parameters).  Tensors are a shape, a flat row-major data sequence and a *)
(* dtype.  Real-valued quantities are exact rationals <<num, den>>.        *)
(***************************************************************************)
EXTENDS Integers, Sequences, FiniteSets, TLC

\* ------------------------------------------------------------------ bounds
Epochs == 2          \* epochs = 30 in the notebook; bounded here
MaxBatch == 2        \* batch_size = 64 in the notebook; bounded here
MaxTrainSet == 2     \* number of training examples
MaxTestSet == 3      \* number of test examples
NumClasses == 2      \* nn.Linear(64, 10): 10 classes in the notebook

\* ------------------------------------------------------------- rationals
RECURSIVE GCD(_, _)
GCD(a, b) == IF b = 0 THEN a ELSE GCD(b, a % b)

Abs(x) == IF x < 0 THEN -x ELSE x

\* the rational n/d in lowest terms, d > 0
Rat(n, d) ==
    LET g == GCD(Abs(n), Abs(d))
        s == IF d < 0 THEN -1 ELSE 1
    IN  <<(s * n) \div g, (s * d) \div g>>

Zero == <<0, 1>>
RAdd(x, y) == Rat(x[1] * y[2] + y[1] * x[2], x[2] * y[2])
RDivInt(x, k) == Rat(x[1], x[2] * k)

\* --------------------------------------------------------------- tensors
RECURSIVE Prod(_)
Prod(s) == IF s = <<>> THEN 1 ELSE Head(s) * Prod(Tail(s))

RECURSIVE SumSeq(_)
SumSeq(s) == IF s = <<>> THEN 0 ELSE Head(s) + SumSeq(Tail(s))

Numel(t) == Prod(t.shape)

\* a mini-batch: the loader it was drawn from, the epoch and position at
\* which it was drawn, and its number of examples
Batch(src, epoch, k, n) == [src |-> src, epoch |-> epoch, k |-> k, n |-> n]
NoBatch == Batch("none", 0, 0, 0)

\* a tensor: shape, flat row-major data, dtype, whether it is attached to
\* an autograd graph (requires_grad), and the mini-batch it was computed from
Tensor(shape, data, dtype, req, src) ==
    [shape |-> shape, data |-> data, dtype |-> dtype, req |-> req, src |-> src]

\* a name that holds no tensor yet
NoTensor == Tensor(<<0>>, <<>>, "none", FALSE, NoBatch)

Max(a, b) == IF a >= b THEN a ELSE b

\* --------------------------------------------------------------- loaders
\* len(DataLoader(dataset of n examples, batch_size=bs)), drop_last=False
LoaderLen(n, bs) == (n + bs - 1) \div bs

\* sizes of the batches one pass over the loader yields, in order: full
\* batches, then the remainder (if any) as a smaller final batch
BatchSizes(n, bs) ==
    [k \in 1..LoaderLen(n, bs) |->
        IF k * bs <= n THEN bs ELSE n - (k - 1) * bs]

\* ------------------------------------------------------- tensor operations
\* element (i, j), 0-based, of a tensor of rank <= 2 broadcast to 2-D:
\* a dimension of size 1 is repeated, a 1-D tensor is a single row
Rows2(t) == IF Len(t.shape) = 2 THEN t.shape[1] ELSE 1
Cols2(t) == IF Len(t.shape) = 2 THEN t.shape[2] ELSE t.shape[1]
At2(t, i, j) ==
    t.data[(IF Rows2(t) = 1 THEN 0 ELSE i) * Cols2(t)
           + (IF Cols2(t) = 1 THEN 0 ELSE j) + 1]

Broadcastable(a, b) ==
    /\ Rows2(a) = Rows2(b) \/ Rows2(a) = 1 \/ Rows2(b) = 1
    /\ Cols2(a) = Cols2(b) \/ Cols2(a) = 1 \/ Cols2(b) = 1

\* a == b : elementwise comparison with broadcasting, a ByteTensor
Eq(a, b) ==
    LET r == Max(Rows2(a), Rows2(b))
        c == Max(Cols2(a), Cols2(b))
        shape == IF Len(a.shape) = 2 \/ Len(b.shape) = 2 THEN <<r, c>> ELSE <<c>>
    IN  Tensor(shape,
               [k \in 1..(r * c) |->
                   IF At2(a, (k - 1) \div c, (k - 1) % c)
                      = At2(b, (k - 1) \div c, (k - 1) % c) THEN 1 ELSE 0],
               "uint8", FALSE, a.src)

\* t.view(*shape): same storage, new shape (same number of elements)
ViewOk(t, shape) == Prod(shape) = Numel(t)
View(t, shape) == [t EXCEPT !.shape = shape]

\* t.type(torch.FloatTensor)
TypeFloat(t) == [t EXCEPT !.dtype = "float32"]

\* torch.mean is implemented for floating tensors only
MeanOk(t) == t.dtype = "float32" /\ Numel(t) > 0
Mean(t) == Rat(SumSeq(t.data), Numel(t))

\* torch.exp, elementwise: strictly increasing (base and scale are chosen
\* so that the log-probabilities 0 and -1 map to integers)
ExpVal(x) == 2 ^ (x + 1)
Exp(t) == [t EXCEPT !.data = [k \in 1..Len(t.data) |-> ExpVal(t.data[k])]]

\* the indices ps.topk(1, dim=1) may return for row i (0-based class index
\* of a largest entry; which of several equal entries is not specified)
ArgMaxes(t, i) ==
    {c \in 0..(Cols2(t) - 1) :
        \A c2 \in 0..(Cols2(t) - 1) : At2(t, i, c2) <= At2(t, i, c)}

\* nn.NLLLoss() on log-probabilities lp (N x C) and targets y (N):
\* the mean over the batch of -lp[i, y[i]]
NLLOk(lp, y) ==
    /\ Len(lp.shape) = 2 /\ Len(y.shape) = 1
    /\ lp.shape[1] = y.shape[1] /\ lp.shape[1] > 0
NLLLoss(lp, y) ==
    Rat(SumSeq([i \in 1..lp.shape[1] |-> -At2(lp, i - 1, y.data[i])]),
        lp.shape[1])

\* "{:.3f}".format(x), as a number of thousandths
Fmt3(x) == (2000 * x[1] + x[2]) \div (2 * x[2])
\* ------------------------------------------------------------ the cells
\* A cell is the sequence of its statements.  "for_epoch", "for" and
\* "no_grad" open an indented block that the matching "end" closes.
Instr(op, arg) == [op |-> op, arg |-> arg]

\* cell 14 with optimizer.step() called before loss.backward()
Cell14_StepFirst ==
    << Instr("for_epoch", "epochs"), Instr("zero", "running_loss"),
       Instr("for", "trainloader"), Instr("zero_grad", ""), Instr("forward", "images"),
       Instr("loss", ""), Instr("step", ""), Instr("backward", ""),
       Instr("add_running", ""), Instr("end", ""),
       Instr("zero", "test_loss"), Instr("zero", "accuracy"), Instr("no_grad", ""),
       Instr("for", "testloader"), Instr("forward", "images"), Instr("add_test_loss", ""),
       Instr("exp", "log_ps"), Instr("topk", ""), Instr("equals", ""),
       Instr("add_accuracy", ""), Instr("end", ""), Instr("end", ""),
       Instr("append", "train_losses"), Instr("append", "test_losses"),
       Instr("print", ""), Instr("end", "") >>

\* cell 14 with an optimizer.step() inside the validation loop
Cell14_StepInValidation ==
    << Instr("for_epoch", "epochs"), Instr("zero", "running_loss"),
       Instr("for", "trainloader"), Instr("zero_grad", ""), Instr("forward", "images"),
       Instr("loss", ""), Instr("backward", ""), Instr("step", ""),
       Instr("add_running", ""), Instr("end", ""),
       Instr("zero", "test_loss"), Instr("zero", "accuracy"), Instr("no_grad", ""),
       Instr("for", "testloader"), Instr("forward", "images"), Instr("add_test_loss", ""),
       Instr("step", ""),
       Instr("exp", "log_ps"), Instr("topk", ""), Instr("equals", ""),
       Instr("add_accuracy", ""), Instr("end", ""), Instr("end", ""),
       Instr("append", "train_losses"), Instr("append", "test_losses"),
       Instr("print", ""), Instr("end", "") >>

\* cell 14 with the validation loop after, not inside, the no_grad block
Cell14_ValidationOutsideNoGrad ==
    << Instr("for_epoch", "epochs"), Instr("zero", "running_loss"),
       Instr("for", "trainloader"), Instr("zero_grad", ""), Instr("forward", "images"),
       Instr("loss", ""), Instr("backward", ""), Instr("step", ""),
       Instr("add_running", ""), Instr("end", ""),
       Instr("zero", "test_loss"), Instr("zero", "accuracy"),
       Instr("no_grad", ""), Instr("end", ""),
       Instr("for", "testloader"), Instr("forward", "images"), Instr("add_test_loss", ""),
       Instr("exp", "log_ps"), Instr("topk", ""), Instr("equals", ""),
       Instr("add_accuracy", ""), Instr("end", ""),
       Instr("append", "train_losses"), Instr("append", "test_losses"),
       Instr("print", ""), Instr("end", "") >>

\* cell 14 with the validation pass indented into the body of the training
\* loop instead of its else branch
Cell14_ValidateEveryBatch ==
    << Instr("for_epoch", "epochs"), Instr("zero", "running_loss"),
       Instr("for", "trainloader"), Instr("zero_grad", ""), Instr("forward", "images"),
       Instr("loss", ""), Instr("backward", ""), Instr("step", ""),
       Instr("add_running", ""),
       Instr("zero", "test_loss"), Instr("zero", "accuracy"), Instr("no_grad", ""),
       Instr("for", "testloader"), Instr("forward", "images"), Instr("add_test_loss", ""),
       Instr("exp", "log_ps"), Instr("topk", ""), Instr("equals", ""),
       Instr("add_accuracy", ""), Instr("end", ""), Instr("end", ""),
       Instr("end", ""),
       Instr("append", "train_losses"), Instr("append", "test_losses"),
       Instr("print", ""), Instr("end", "") >>

\* cell 14 with optimizer.step() dedented out of the mini-batch loop
Cell14_StepAfterLoop ==
    << Instr("for_epoch", "epochs"), Instr("zero", "running_loss"),
       Instr("for", "trainloader"), Instr("zero_grad", ""), Instr("forward", "images"),
       Instr("loss", ""), Instr("backward", ""), Instr("add_running", ""),
       Instr("end", ""), Instr("step", ""),
       Instr("zero", "test_loss"), Instr("zero", "accuracy"), Instr("no_grad", ""),
       Instr("for", "testloader"), Instr("forward", "images"), Instr("add_test_loss", ""),
       Instr("exp", "log_ps"), Instr("topk", ""), Instr("equals", ""),
       Instr("add_accuracy", ""), Instr("end", ""), Instr("end", ""),
       Instr("append", "train_losses"), Instr("append", "test_losses"),
       Instr("print", ""), Instr("end", "") >>

\* cell 14 without optimizer.zero_grad()
Cell14_NoZeroGrad ==
    << Instr("for_epoch", "epochs"), Instr("zero", "running_loss"),
       Instr("for", "trainloader"), Instr("forward", "images"),
       Instr("loss", ""), Instr("backward", ""), Instr("step", ""),
       Instr("add_running", ""), Instr("end", ""),
       Instr("zero", "test_loss"), Instr("zero", "accuracy"), Instr("no_grad", ""),
       Instr("for", "testloader"), Instr("forward", "images"), Instr("add_test_loss", ""),
       Instr("exp", "log_ps"), Instr("topk", ""), Instr("equals", ""),
       Instr("add_accuracy", ""), Instr("end", ""), Instr("end", ""),
       Instr("append", "train_losses"), Instr("append", "test_losses"),
       Instr("print", ""), Instr("end", "") >>

\* cell 14 with running_loss = 0 placed before the epoch loop
Cell14_ResetOnce ==
    << Instr("zero", "running_loss"), Instr("for_epoch", "epochs"),
       Instr("for", "trainloader"), Instr("zero_grad", ""), Instr("forward", "images"),
       Instr("loss", ""), Instr("backward", ""), Instr("step", ""),
       Instr("add_running", ""), Instr("end", ""),
       Instr("zero", "test_loss"), Instr("zero", "accuracy"), Instr("no_grad", ""),
       Instr("for", "testloader"), Instr("forward", "images"), Instr("add_test_loss", ""),
       Instr("exp", "log_ps"), Instr("topk", ""), Instr("equals", ""),
       Instr("add_accuracy", ""), Instr("end", ""), Instr("end", ""),
       Instr("append", "train_losses"), Instr("append", "test_losses"),
       Instr("print", ""), Instr("end", "") >>

\* cell 14 with test_losses.append indented into the validation loop
Cell14_AppendInLoop ==
    << Instr("for_epoch", "epochs"), Instr("zero", "running_loss"),
       Instr("for", "trainloader"), Instr("zero_grad", ""), Instr("forward", "images"),
       Instr("loss", ""), Instr("backward", ""), Instr("step", ""),
       Instr("add_running", ""), Instr("end", ""),
       Instr("zero", "test_loss"), Instr("zero", "accuracy"), Instr("no_grad", ""),
       Instr("for", "testloader"), Instr("forward", "images"), Instr("add_test_loss", ""),
       Instr("exp", "log_ps"), Instr("topk", ""), Instr("equals", ""),
       Instr("add_accuracy", ""), Instr("append", "test_losses"), Instr("end", ""),
       Instr("end", ""),
       Instr("append", "train_losses"),
       Instr("print", ""), Instr("end", "") >>

\* cell 14: training run of the Classifier without dropout
Cell14 ==
    << Instr("for_epoch", "epochs"),              \* for e in range(epochs):
       Instr("zero", "running_loss"),             \*   running_loss = 0
       Instr("for", "trainloader"),               \*   for images, labels in trainloader:
       Instr("zero_grad", ""),                    \*     optimizer.zero_grad()
       Instr("forward", "images"),                \*     log_ps = model(images)
       Instr("loss", ""),                         \*     loss = criterion(log_ps, labels)
       Instr("backward", ""),                     \*     loss.backward()
       Instr("step", ""),                         \*     optimizer.step()
       Instr("add_running", ""),                  \*     running_loss += loss.item()
       Instr("end", ""),                          \*   else:
       Instr("zero", "test_loss"),                \*     test_loss = 0
       Instr("zero", "accuracy"),                 \*     accuracy = 0
       Instr("no_grad", ""),                      \*     with torch.no_grad():
       Instr("for", "testloader"),                \*       for images, labels in testloader:
       Instr("forward", "images"),                \*         log_ps = model(images)
       Instr("add_test_loss", ""),                \*         test_loss += criterion(log_ps, labels)
       Instr("exp", "log_ps"),                    \*         ps = torch.exp(log_ps)
       Instr("topk", ""),                         \*         top_p, top_class = ps.topk(1, dim=1)
       Instr("equals", ""),                       \*         equals = top_class == labels.view(*top_class.shape)
       Instr("add_accuracy", ""),                 \*         accuracy += torch.mean(equals.type(torch.FloatTensor))
       Instr("end", ""),                          \*       (end of the test loop)
       Instr("end", ""),                          \*     (end of the no_grad block)
       Instr("append", "train_losses"),           \*     train_losses.append(running_loss/len(trainloader))
       Instr("append", "test_losses"),            \*     test_losses.append(test_loss/len(testloader))
       Instr("print", ""),                        \*     print("Epoch: {}/{}.. " ...)
       Instr("end", "") >>                        \* (end of the epoch loop)

\* cell 18 without the model.train() at the end of the epoch
Cell18_NoTrain ==
    << Instr("for_epoch", "epochs"), Instr("zero", "running_loss"),
       Instr("for", "trainloader"), Instr("zero_grad", ""), Instr("forward", "images"),
       Instr("loss", ""), Instr("backward", ""), Instr("step", ""),
       Instr("add_running", ""), Instr("end", ""),
       Instr("zero", "test_loss"), Instr("zero", "accuracy"), Instr("no_grad", ""),
       Instr("eval", ""), Instr("for", "testloader"), Instr("eval", ""),
       Instr("forward", "images"), Instr("add_test_loss", ""),
       Instr("exp", "log_ps"), Instr("topk", ""), Instr("equals", ""),
       Instr("add_accuracy", ""), Instr("end", ""), Instr("end", ""),
       Instr("append", "train_losses"), Instr("append", "test_losses"),
       Instr("print", ""), Instr("end", "") >>

\* cell 18 with the validation loop drawing its batches from trainloader
Cell18_ValidateOnTrain ==
    << Instr("for_epoch", "epochs"), Instr("zero", "running_loss"),
       Instr("for", "trainloader"), Instr("zero_grad", ""), Instr("forward", "images"),
       Instr("loss", ""), Instr("backward", ""), Instr("step", ""),
       Instr("add_running", ""), Instr("end", ""),
       Instr("zero", "test_loss"), Instr("zero", "accuracy"), Instr("no_grad", ""),
       Instr("eval", ""), Instr("for", "trainloader"), Instr("eval", ""),
       Instr("forward", "images"), Instr("add_test_loss", ""),
       Instr("exp", "log_ps"), Instr("topk", ""), Instr("equals", ""),
       Instr("add_accuracy", ""), Instr("end", ""), Instr("end", ""),
       Instr("append", "train_losses"), Instr("append", "test_losses"),
       Instr("train", ""), Instr("print", ""), Instr("end", "") >>

\* cell 18 without the running_loss += loss.item() of the training loop
Cell18_NoRunningLoss ==
    << Instr("for_epoch", "epochs"), Instr("zero", "running_loss"),
       Instr("for", "trainloader"), Instr("zero_grad", ""), Instr("forward", "images"),
       Instr("loss", ""), Instr("backward", ""), Instr("step", ""),
       Instr("end", ""),
       Instr("zero", "test_loss"), Instr("zero", "accuracy"), Instr("no_grad", ""),
       Instr("eval", ""),
       Instr("for", "testloader"), Instr("eval", ""), Instr("forward", "images"),
       Instr("add_test_loss", ""), Instr("exp", "log_ps"), Instr("topk", ""),
       Instr("equals", ""), Instr("add_accuracy", ""), Instr("end", ""),
       Instr("end", ""),
       Instr("append", "train_losses"), Instr("append", "test_losses"),
       Instr("train", ""), Instr("print", ""), Instr("end", "") >>

\* cell 18: training run of the Classifier with dropout
Cell18 ==
    << Instr("for_epoch", "epochs"),
       Instr("zero", "running_loss"),
       Instr("for", "trainloader"),
       Instr("zero_grad", ""),
       Instr("forward", "images"),
       Instr("loss", ""),
       Instr("backward", ""),
       Instr("step", ""),
       Instr("add_running", ""),
       Instr("end", ""),
       Instr("zero", "test_loss"),
       Instr("zero", "accuracy"),
       Instr("no_grad", ""),
       Instr("eval", ""),                         \*       model.eval()
       Instr("for", "testloader"),
       Instr("eval", ""),                         \*         model.eval()
       Instr("forward", "images"),
       Instr("add_test_loss", ""),
       Instr("exp", "log_ps"),
       Instr("topk", ""),
       Instr("equals", ""),
       Instr("add_accuracy", ""),
       Instr("end", ""),
       Instr("end", ""),
       Instr("append", "train_losses"),
       Instr("append", "test_losses"),
       Instr("train", ""),                        \*     model.train()
       Instr("print", ""),
       Instr("end", "") >>

\* cell 20 without the model.eval()
Cell20_NoEval ==
    << Instr("next", "testloader"), Instr("select", ""), Instr("no_grad", ""),
       Instr("forward", "img"), Instr("end", ""), Instr("exp", "output"),
       Instr("view_classify", "") >>

\* cell 20: inference on one test image
Cell20 ==
    << Instr("eval", ""),                         \* model.eval()
       Instr("next", "testloader"),               \* images, labels = iter(testloader).next()
       Instr("select", ""),                       \* img = images[0]; img = img.view(1, 784)
       Instr("no_grad", ""),                      \* with torch.no_grad():
       Instr("forward", "img"),                   \*   output = model.forward(img)
       Instr("end", ""),
       Instr("exp", "output"),                    \* ps = torch.exp(output)
       Instr("view_classify", "") >>              \* helper.view_classify(img.view(1, 28, 28), ps, ...)

Program(c) ==
    CASE c = "cell14" -> Cell14
      [] c = "cell18" -> Cell18
      [] c = "cell20" -> Cell20
      [] OTHER -> <<>>

\* the Classifier of cell 17 (used by cell 18) has a Dropout module, the
\* Classifier of cell 3 (used by cell 14) has none
HasDropout(c) == c = "cell18"

\* the Linear modules of both Classifiers: nn.Linear(in, out)
Linear(name) ==
    CASE name = "fc1" -> [in |-> 784, out |-> 256]
      [] name = "fc2" -> [in |-> 256, out |-> 128]
      [] name = "fc3" -> [in |-> 128, out |-> 64]
      [] name = "fc4" -> [in |-> 64, out |-> 10]

Linears == {"fc1", "fc2", "fc3", "fc4"}

\* Classifier.forward of cell 3, as the calls it makes on x, innermost first
Classifier3_forward ==
    << "view",                          \* x = x.view(x.shape[0], -1)
       "fc1", "relu",                   \* x = F.relu(self.fc1(x))
       "fc2", "relu",                   \* x = F.relu(self.fc2(x))
       "fc3", "relu",                   \* x = F.relu(self.fc3(x))
       "fc4", "log_softmax" >>          \* x = F.log_softmax(self.fc4(x), dim=1)

\* the forward of cell 17 with the dropout module also applied to the output
Classifier17_DropoutOnOutput ==
    << "view", "fc1", "relu", "dropout", "fc2", "relu", "dropout",
       "fc3", "relu", "dropout", "fc4", "dropout", "log_softmax" >>

\* Classifier.forward of cell 17 (the model with dropout)
Classifier17_forward ==
    << "view",                          \* x = x.view(x.shape[0], -1)
       "fc1", "relu", "dropout",        \* x = self.dropout(F.relu(self.fc1(x)))
       "fc2", "relu", "dropout",        \* x = self.dropout(F.relu(self.fc2(x)))
       "fc3", "relu", "dropout",        \* x = self.dropout(F.relu(self.fc3(x)))
       "fc4", "log_softmax" >>          \* x = F.log_softmax(self.fc4(x), dim=1)

\* the forward method of the model a cell works on
ForwardCalls(c) == IF HasDropout(c) THEN Classifier17_forward ELSE Classifier3_forward

\* the calls of a forward method applied one after the other to an input of
\* the given number of features per example: each entry records the call,
\* the width it received and the width it returned; a Linear module given
\* another width than its in_features raises a size mismatch, which ends the
\* trace with an "error" entry
RECURSIVE Apply(_, _, _, _)
Apply(calls, i, width, tr) ==
    IF i > Len(calls) THEN tr
    ELSE IF calls[i] \in Linears
         THEN IF Linear(calls[i]).in = width
              THEN Apply(calls, i + 1, Linear(calls[i]).out,
                         Append(tr, [op |-> calls[i], in |-> width,
                                     out |-> Linear(calls[i]).out]))
              ELSE Append(tr, [op |-> "error", in |-> width, out |-> 0])
         ELSE Apply(calls, i + 1, width,
                    Append(tr, [op |-> calls[i], in |-> width, out |-> width]))

\* the trace of model(x) for the 784 pixels of an image
ForwardTrace(c) == Apply(ForwardCalls(c), 1, 784, <<>>)

TraceOk(tr) == tr # <<>> /\ tr[Len(tr)].op # "error"

Openers == {"for_epoch", "for", "no_grad"}

\* index of the "end" closing the block opened just before index i
RECURSIVE BlockEnd(_, _, _)
BlockEnd(prog, i, depth) ==
    IF i > Len(prog) THEN i
    ELSE IF prog[i].op \in Openers THEN BlockEnd(prog, i + 1, depth + 1)
    ELSE IF prog[i].op = "end"
         THEN IF depth = 0 THEN i ELSE BlockEnd(prog, i + 1, depth - 1)
    ELSE BlockEnd(prog, i + 1, depth)

\* index of the statement opening the block that the "end" just after
\* index i closes
RECURSIVE BlockOpen(_, _, _)
BlockOpen(prog, i, depth) ==
    IF i < 1 THEN 0
    ELSE IF prog[i].op = "end" THEN BlockOpen(prog, i - 1, depth + 1)
    ELSE IF prog[i].op \in Openers
         THEN IF depth = 0 THEN i ELSE BlockOpen(prog, i - 1, depth - 1)
    ELSE BlockOpen(prog, i - 1, depth)
\* ----------------------------------------------------------------- state
VARIABLES
    cell,          \* the notebook cell being executed, or "done"
    pc,            \* index of the next statement of the cell
    trained,       \* the training cell of this run ("cell14" or "cell18")
    batch_size,    \* batch_size of both DataLoaders
    train_n,       \* len(trainset)
    test_n,        \* len(testset)
    e,             \* epoch index of the epoch loop
    iters,         \* stack of the active for-loop iterators
    images,        \* the current mini-batch
    labels,        \* its labels
    img,           \* the single image of the inference cell
    training,      \* model.training (train mode / evaluation mode)
    grad_enabled,  \* torch.is_grad_enabled()
    grad_saved,    \* stack of the modes saved by the open no_grad blocks
    params,        \* the model parameters, as the number of in-place updates
    grads,         \* the .grad buffers: allocated?, and the mini-batches
                   \* whose gradients they hold since they were last zeroed
    log_ps, output, loss, ps, top_class, equals,
    running_loss, test_loss, accuracy,
    train_losses, test_losses,
    printed,       \* the metrics lines printed so far
    raised,        \* an exception ended the cell
    ops,           \* history: statements executed since the last mini-batch
                   \* was drawn
    fwd,           \* history: circumstances of the last forward pass
    upd,           \* history: circumstances of the last optimizer step
    used,          \* history: loaders whose batches reached each consumer
    val            \* history: the validation passes of the current epoch

\* The history variables are written, never read, by the statements:
\*   fwd  the cell, loader, model mode, autograd mode and parameters of the
\*        last forward pass, whether dropout was active in it, and the
\*        calls its forward method made with the widths they saw
\*   upd  the mini-batches whose gradients the last optimizer step applied,
\*        and the number of optimizer steps
\*   used the loaders whose batches reached backward, step, test_loss and
\*        accuracy; terms: for each accumulator, the mini-batch and value
\*        of every term added to it since it was last set to 0
\*   val  epoch: epochs begun; trained: training loop bodies completed in
\*        this epoch; started / finished: validation passes begun / ended in
\*        this epoch; total: validation passes ended in the run; params /
\*        params_end: the parameters when the last pass began / ended;
\*        seen / correct: test examples evaluated in the pass and those
\*        whose top class equals the label; last: the last per-batch mean

ctrl_rest == <<cell, trained, batch_size, train_n, test_n>>
ctrl == <<ctrl_rest, pc, e, iters>>
data == <<images, labels, img>>
modes == <<training, grad_enabled, grad_saved>>
optim == <<params, grads>>
temps == <<log_ps, output, loss, ps, top_class, equals>>
accs == <<running_loss, test_loss, accuracy>>
outs == <<train_losses, test_losses, printed>>
hist == <<fwd, upd, used, val>>
vars == <<ctrl, data, modes, optim, temps, accs, outs, raised, ops, hist>>

TrainingCells == {"cell14", "cell18"}

Init ==
    /\ cell \in TrainingCells
    /\ trained = cell
    /\ pc = 1
    /\ batch_size \in 1..MaxBatch
    /\ train_n \in 1..MaxTrainSet
    /\ test_n \in 1..MaxTestSet
    /\ e = 0
    /\ iters = <<>>
    /\ images = NoBatch /\ labels = NoTensor /\ img = NoBatch
    /\ training = TRUE                 \* a fresh nn.Module is in train mode
    /\ grad_enabled = TRUE
    /\ grad_saved = <<>>
    /\ params = 0
    /\ grads = [alloc |-> FALSE, from |-> <<>>]
    /\ log_ps = NoTensor /\ output = NoTensor /\ loss = NoTensor
    /\ ps = NoTensor /\ top_class = NoTensor /\ equals = NoTensor
    /\ running_loss = Zero /\ test_loss = Zero /\ accuracy = Zero
    /\ train_losses = <<>> /\ test_losses = <<>>
    /\ printed = <<>>
    /\ raised = FALSE
    /\ ops = <<>>
    /\ fwd = [cell |-> "none", src |-> "none", training |-> TRUE, grad |-> TRUE,
              dropout |-> FALSE, params |-> 0,
              calls |-> <<>>]
    /\ upd = [from |-> <<>>, count |-> 0]
    /\ used = [backward |-> {}, step |-> {}, test_loss |-> {}, accuracy |-> {},
               terms |-> [running_loss |-> <<>>, test_loss |-> <<>>, accuracy |-> <<>>]]
    /\ val = [epoch |-> 0, started |-> 0, finished |-> 0, params |-> 0,
              correct |-> 0, seen |-> 0, trained |-> 0, total |-> 0,
              params_end |-> 0, last |-> Zero]

Prog == Program(cell)
\* a run that goes on to its next statement after an exception
RunningAfterError == cell \in {"cell14", "cell18", "cell20"} /\ pc <= Len(Prog)
Running == cell \in {"cell14", "cell18", "cell20"} /\ ~raised /\ pc <= Len(Prog)
At(op) == Running /\ Prog[pc].op = op
Arg == Prog[pc].arg
Log(op) == ops' = Append(ops, op)

LoaderSize(name) == IF name = "trainloader" THEN train_n ELSE test_n
Len_(name) == LoaderLen(LoaderSize(name), batch_size)

\* an uncaught exception: the cell stops at this statement
Raise == raised' = TRUE /\ UNCHANGED <<ctrl, data, modes, optim, temps, accs, outs, ops, hist>>

Top == iters[Len(iters)]
Continuing == iters # <<>> /\ Top.at = pc
Pop(stk) == SubSeq(stk, 1, Len(stk) - 1)
\* the iterator stack after drawing one item from the iterator of the loop
\* at pc, whose remaining items (before the draw) are rest
Drawn(rest) ==
    Append(IF Continuing THEN Pop(iters) ELSE iters, [at |-> pc, rest |-> Tail(rest)])
AfterBlock == BlockEnd(Prog, pc + 1, 0) + 1

\* for e in range(epochs):
ForEpoch ==
    /\ At("for_epoch")
    /\ LET rest == IF Continuing THEN Top.rest ELSE [k \in 1..Epochs |-> k - 1]
       IN  IF rest = <<>>
           THEN /\ pc' = AfterBlock
                /\ iters' = Pop(iters)
                /\ UNCHANGED <<e, val>>
           ELSE /\ pc' = pc + 1
                /\ e' = Head(rest)
                /\ iters' = Drawn(rest)
                /\ val' = [val EXCEPT !.epoch = @ + 1, !.started = 0, !.finished = 0,
                                      !.trained = 0]
    /\ Log("for_epoch")
    /\ UNCHANGED <<cell, trained, batch_size, train_n, test_n, data, modes, optim,
                   temps, accs, outs, raised, fwd, upd, used>>

\* for images, labels in trainloader / testloader:
ForLoader ==
    /\ At("for")
    /\ LET n == LoaderSize(Arg)
           rest == IF Continuing THEN Top.rest ELSE BatchSizes(n, batch_size)
           started == ~Continuing /\ Arg = "testloader"
           ended == rest = <<>> /\ Arg = "testloader"
           val1 == IF started
                   THEN [val EXCEPT !.started = @ + 1, !.params = params,
                                    !.correct = 0, !.seen = 0]
                   ELSE val
       IN  IF rest = <<>>
           THEN /\ pc' = AfterBlock
                /\ iters' = IF Continuing THEN Pop(iters) ELSE iters
                /\ val' = IF ended THEN [val1 EXCEPT !.finished = @ + 1, !.total = @ + 1,
                                                    !.params_end = params]
                                   ELSE val1
                /\ Log("for")
                /\ UNCHANGED data
           ELSE /\ pc' = pc + 1
                /\ iters' = Drawn(rest)
                /\ val' = val1
                /\ LET b == Batch(Arg, e, LoaderLen(n, batch_size) - Len(rest) + 1,
                                  Head(rest))
                   IN  /\ images' = b
                       /\ \E y \in [1..Head(rest) -> 0..(NumClasses - 1)] :
                              labels' = Tensor(<<Head(rest)>>, y, "int64", FALSE, b)
                /\ ops' = <<>>
                /\ UNCHANGED img
    /\ UNCHANGED <<cell, trained, batch_size, train_n, test_n, e, modes, optim, temps,
                   accs, outs, raised, fwd, upd, used>>

\* the end of a for block: back to the loop header
EndFor ==
    /\ At("end")
    /\ LET open == BlockOpen(Prog, pc - 1, 0)
       IN  /\ open > 0 /\ Prog[open].op \in {"for_epoch", "for"}
           /\ pc' = open
           /\ val' = IF Prog[open].arg = "trainloader"
                     THEN [val EXCEPT !.trained = @ + 1] ELSE val
    /\ Log("end")
    /\ UNCHANGED <<cell, trained, batch_size, train_n, test_n, e, iters, data, modes,
                   optim, temps, accs, outs, raised, fwd, upd, used>>

\* with torch.no_grad():  (entering saves the current mode)
NoGradEnter ==
    /\ At("no_grad")
    /\ grad_saved' = Append(grad_saved, grad_enabled)
    /\ grad_enabled' = FALSE
    /\ pc' = pc + 1
    /\ Log("no_grad")
    /\ UNCHANGED <<cell, trained, batch_size, train_n, test_n, e, iters, data, training,
                   optim, temps, accs, outs, raised, hist>>

\* leaving the no_grad block restores the mode saved on entry
NoGradExit ==
    /\ At("end")
    /\ LET open == BlockOpen(Prog, pc - 1, 0)
       IN  open > 0 /\ Prog[open].op = "no_grad"
    /\ grad_enabled' = grad_saved[Len(grad_saved)]
    /\ grad_saved' = Pop(grad_saved)
    /\ pc' = pc + 1
    /\ Log("end")
    /\ UNCHANGED <<cell, trained, batch_size, train_n, test_n, e, iters, data, training,
                   optim, temps, accs, outs, raised, hist>>

\* one term of an accumulator: the mini-batch it was computed from and
\* its value
Term(b, v) == [batch |-> b, value |-> v]

\* running_loss = 0 / test_loss = 0 / accuracy = 0
AssignZero ==
    /\ At("zero")
    /\ running_loss' = IF Arg = "running_loss" THEN Zero ELSE running_loss
    /\ test_loss' = IF Arg = "test_loss" THEN Zero ELSE test_loss
    /\ accuracy' = IF Arg = "accuracy" THEN Zero ELSE accuracy
    /\ used' = [used EXCEPT !.terms[Arg] = <<>>]
    /\ pc' = pc + 1
    /\ Log("zero")
    /\ UNCHANGED <<cell, trained, batch_size, train_n, test_n, e, iters, data, modes,
                   optim, temps, outs, raised, fwd, upd, val>>

\* model.eval()
Eval ==
    /\ At("eval")
    /\ training' = FALSE
    /\ pc' = pc + 1
    /\ Log("eval")
    /\ UNCHANGED <<cell, trained, batch_size, train_n, test_n, e, iters, data,
                   grad_enabled, grad_saved, optim, temps, accs, outs, raised, hist>>

\* model.train()
Train ==
    /\ At("train")
    /\ training' = TRUE
    /\ pc' = pc + 1
    /\ Log("train")
    /\ UNCHANGED <<cell, trained, batch_size, train_n, test_n, e, iters, data,
                   grad_enabled, grad_saved, optim, temps, accs, outs, raised, hist>>
\* optimizer.zero_grad(): zeroes the .grad buffers that exist
ZeroGrad ==
    /\ At("zero_grad")
    /\ grads' = [grads EXCEPT !.from = <<>>]
    /\ pc' = pc + 1
    /\ Log("zero_grad")
    /\ UNCHANGED <<ctrl_rest, e, iters, data, modes, params, temps, accs, outs, raised,
                   hist>>

\* the flat data of an output whose row i has log-probability 0 at class
\* top[i] and -1 at every other class
OutputData(top) ==
    [k \in 1..(Len(top) * NumClasses) |->
        IF (k - 1) % NumClasses = top[((k - 1) \div NumClasses) + 1]
        THEN 0 ELSE -1]

\* log_ps = model(images) / output = model.forward(img): the calls of the
\* model's forward method are applied in order (a size mismatch in a Linear
\* module raises); the result has one row of log-probabilities per example,
\* its fc4 columns represented by NumClasses of them; which class gets the
\* largest one depends on the parameters, the pixels and (in train mode,
\* with dropout) a random mask
Forward ==
    /\ At("forward")
    /\ IF TraceOk(ForwardTrace(trained))
       THEN /\ LET x == IF Arg = "img" THEN img ELSE images
               IN  /\ \E top \in [1..x.n -> 0..(NumClasses - 1)] :
                         LET y == Tensor(<<x.n, NumClasses>>, OutputData(top), "float32",
                                         grad_enabled, x)
                         IN  IF Arg = "img"
                             THEN output' = y /\ UNCHANGED log_ps
                             ELSE log_ps' = y /\ UNCHANGED output
                   /\ fwd' = [cell |-> cell, src |-> x.src, training |-> training,
                              grad |-> grad_enabled,
                              dropout |-> HasDropout(trained) /\ training,
                              params |-> params, calls |-> ForwardTrace(trained)]
            /\ pc' = pc + 1
            /\ Log("forward")
            /\ UNCHANGED <<ctrl_rest, e, iters, data, modes, optim, loss, ps, top_class,
                           equals, accs, outs, raised, upd, used, val>>
       ELSE Raise

\* the value of criterion(log_ps, labels)
Criterion ==
    Tensor(<<>>, <<NLLLoss(log_ps, labels)>>, "float32", log_ps.req, log_ps.src)

\* loss = criterion(log_ps, labels)
Loss ==
    /\ At("loss")
    /\ IF NLLOk(log_ps, labels)
       THEN /\ loss' = Criterion
            /\ pc' = pc + 1
            /\ Log("loss")
            /\ UNCHANGED <<ctrl_rest, e, iters, data, modes, optim, log_ps, output, ps,
                           top_class, equals, accs, outs, raised, hist>>
       ELSE Raise

\* loss.backward(): adds the gradients of loss to the .grad buffers; a
\* tensor computed with gradients disabled has no graph to differentiate
Backward ==
    /\ At("backward")
    /\ IF loss.req
       THEN /\ grads' = [alloc |-> TRUE, from |-> Append(grads.from, loss.src)]
            /\ used' = [used EXCEPT !.backward = @ \cup {loss.src.src}]
            /\ pc' = pc + 1
            /\ Log("backward")
            /\ UNCHANGED <<ctrl_rest, e, iters, data, modes, params, temps, accs, outs,
                           raised, fwd, upd, val>>
       ELSE Raise

\* optimizer.step(): updates in place every parameter that has a gradient
Step ==
    /\ At("step")
    /\ params' = IF grads.alloc THEN params + 1 ELSE params
    /\ upd' = [from |-> grads.from, count |-> upd.count + 1]
    /\ used' = [used EXCEPT !.step = @ \cup {grads.from[k].src : k \in 1..Len(grads.from)}]
    /\ pc' = pc + 1
    /\ Log("step")
    /\ UNCHANGED <<ctrl_rest, e, iters, data, modes, grads, temps, accs, outs, raised,
                   fwd, val>>

\* running_loss += loss.item()
AddRunning ==
    /\ At("add_running")
    /\ running_loss' = RAdd(running_loss, loss.data[1])
    /\ used' = [used EXCEPT !.terms.running_loss = Append(@, Term(loss.src, loss.data[1]))]
    /\ pc' = pc + 1
    /\ Log("add_running")
    /\ UNCHANGED <<ctrl_rest, e, iters, data, modes, optim, temps, test_loss, accuracy,
                   outs, raised, fwd, upd, val>>

\* test_loss += criterion(log_ps, labels)
AddTestLoss ==
    /\ At("add_test_loss")
    /\ IF NLLOk(log_ps, labels)
       THEN /\ test_loss' = RAdd(test_loss, Criterion.data[1])
            /\ used' = [used EXCEPT
                          !.test_loss = @ \cup {log_ps.src.src, labels.src.src},
                          !.terms.test_loss = Append(@, Term(log_ps.src, Criterion.data[1]))]
            /\ pc' = pc + 1
            /\ Log("add_test_loss")
            /\ UNCHANGED <<ctrl_rest, e, iters, data, modes, optim, temps, running_loss,
                           accuracy, outs, raised, fwd, upd, val>>
       ELSE Raise

\* ps = torch.exp(log_ps) / ps = torch.exp(output)
ExpPs ==
    /\ At("exp")
    /\ ps' = Exp(IF Arg = "output" THEN output ELSE log_ps)
    /\ pc' = pc + 1
    /\ Log("exp")
    /\ UNCHANGED <<ctrl_rest, e, iters, data, modes, optim, log_ps, output, loss,
                   top_class, equals, accs, outs, raised, hist>>

\* top_p, top_class = ps.topk(1, dim=1)   (top_p is never read)
TopK ==
    /\ At("topk")
    /\ \E tc \in [1..Rows2(ps) -> 0..(NumClasses - 1)] :
          /\ \A i \in 1..Rows2(ps) : tc[i] \in ArgMaxes(ps, i - 1)
          /\ top_class' = Tensor(<<Rows2(ps), 1>>, tc, "int64", FALSE, ps.src)
    /\ pc' = pc + 1
    /\ Log("topk")
    /\ UNCHANGED <<ctrl_rest, e, iters, data, modes, optim, log_ps, output, loss, ps,
                   equals, accs, outs, raised, hist>>

\* labels compared as they are, without the view
LabelsNoView == labels

\* labels.view(*top_class.shape)
LabelsView == View(labels, top_class.shape)

\* equals = top_class == labels.view(*top_class.shape)
Equals ==
    /\ At("equals")
    /\ IF ViewOk(labels, top_class.shape) /\ Broadcastable(top_class, LabelsView)
       THEN /\ equals' = Eq(top_class, LabelsView)
            /\ pc' = pc + 1
            /\ Log("equals")
            /\ UNCHANGED <<ctrl_rest, e, iters, data, modes, optim, log_ps, output, loss,
                           ps, top_class, accs, outs, raised, hist>>
       ELSE Raise

\* equals passed to torch.mean as it is, a ByteTensor
EqualsRaw == equals

\* equals.type(torch.FloatTensor)
EqualsFloat == TypeFloat(equals)

\* accuracy += torch.mean(equals.type(torch.FloatTensor))
AddAccuracy ==
    /\ At("add_accuracy")
    /\ IF MeanOk(EqualsFloat)
       THEN /\ accuracy' = RAdd(accuracy, Mean(EqualsFloat))
            /\ used' = [used EXCEPT
                          !.accuracy = @ \cup {equals.src.src, labels.src.src},
                          !.terms.accuracy = Append(@, Term(equals.src, Mean(EqualsFloat)))]
            /\ val' = [val EXCEPT
                         !.last = Mean(EqualsFloat),
                         !.seen = @ + images.n,
                         !.correct = @ + Cardinality({i \in 1..images.n :
                                            top_class.data[i] = labels.data[i]})]
            /\ pc' = pc + 1
            /\ Log("add_accuracy")
            /\ UNCHANGED <<ctrl_rest, e, iters, data, modes, optim, temps, running_loss,
                           test_loss, outs, raised, fwd, upd>>
       ELSE Raise

\* train_losses.append(running_loss/len(trainloader))
\* test_losses.append(test_loss/len(testloader))
AppendLoss ==
    /\ At("append")
    /\ train_losses' = IF Arg = "train_losses"
                       THEN Append(train_losses, RDivInt(running_loss, Len_("trainloader")))
                       ELSE train_losses
    /\ test_losses' = IF Arg = "test_losses"
                      THEN Append(test_losses, RDivInt(test_loss, Len_("testloader")))
                      ELSE test_losses
    /\ pc' = pc + 1
    /\ Log("append")
    /\ UNCHANGED <<ctrl_rest, e, iters, data, modes, optim, temps, accs, printed, raised,
                   hist>>

\* the metrics line showing the 0-based loop index
EpochIndex(ep) == ep

\* the epoch number the metrics line shows
EpochLabel(ep) == ep + 1

\* print("Epoch: {}/{}.. ", "Training Loss: {:.3f}.. ", "Test Loss: {:.3f}.. ",
\*       "Test Accuracy: {:.3f}")
PrintMetrics ==
    /\ At("print")
    /\ printed' = Append(printed,
           [epoch |-> EpochLabel(e), epochs |-> Epochs,
            training_loss |-> Fmt3(RDivInt(running_loss, Len_("trainloader"))),
            test_loss |-> Fmt3(RDivInt(test_loss, Len_("testloader"))),
            test_accuracy |-> Fmt3(RDivInt(accuracy, Len_("testloader")))])
    /\ pc' = pc + 1
    /\ Log("print")
    /\ UNCHANGED <<ctrl_rest, e, iters, data, modes, optim, temps, accs, train_losses,
                   test_losses, raised, hist>>

\* dataiter = iter(testloader); images, labels = dataiter.next()
NextBatch ==
    /\ At("next")
    /\ LET n == Head(BatchSizes(LoaderSize(Arg), batch_size))
           b == Batch(Arg, e, 1, n)
       IN  /\ images' = b
           /\ \E y \in [1..n -> 0..(NumClasses - 1)] :
                  labels' = Tensor(<<n>>, y, "int64", FALSE, b)
    /\ pc' = pc + 1
    /\ ops' = <<>>
    /\ UNCHANGED <<ctrl_rest, e, iters, img, modes, optim, temps, accs, outs, raised, hist>>

\* img = images[0]; img = img.view(1, 784)
SelectImg ==
    /\ At("select")
    /\ img' = [images EXCEPT !.n = 1]
    /\ pc' = pc + 1
    /\ Log("select")
    /\ UNCHANGED <<ctrl_rest, e, iters, images, labels, modes, optim, temps, accs, outs,
                   raised, hist>>

\* helper.view_classify(img.view(1, 28, 28), ps, version='Fashion')
ViewClassify ==
    /\ At("view_classify")
    /\ pc' = pc + 1
    /\ Log("view_classify")
    /\ UNCHANGED <<ctrl_rest, e, iters, data, modes, optim, temps, accs, outs, raised,
                   hist>>

\* the training cell has run to its end: the inference cell is run next
FinishTraining ==
    /\ cell \in TrainingCells /\ ~raised /\ pc > Len(Prog)
    /\ cell' = "cell20"
    /\ pc' = 1
    /\ UNCHANGED <<trained, batch_size, train_n, test_n, e, iters, data, modes, optim,
                   temps, accs, outs, raised, ops, hist>>

\* the inference cell has run to its end
FinishInference ==
    /\ cell = "cell20" /\ ~raised /\ pc > Len(Prog)
    /\ cell' = "done"
    /\ UNCHANGED <<pc, trained, batch_size, train_n, test_n, e, iters, data, modes, optim,
                   temps, accs, outs, raised, ops, hist>>

Next ==
    \/ ForEpoch \/ ForLoader \/ EndFor \/ NoGradEnter \/ NoGradExit
    \/ AssignZero \/ Eval \/ Train \/ ZeroGrad \/ Forward \/ Loss \/ Backward
    \/ Step \/ AddRunning \/ AddTestLoss \/ ExpPs \/ TopK \/ Equals
    \/ AddAccuracy \/ AppendLoss \/ PrintMetrics \/ NextBatch \/ SelectImg
    \/ ViewClassify \/ FinishTraining \/ FinishInference

Spec == Init /\ [][Next]_vars

\* the statements that call into the framework (tensor, module, optimizer,
\* autograd or loader code); plain Python statements (range, = 0, the float
\* division of running_loss, the end of a loop body) are not among them
FrameworkCall(instr) ==
    \/ instr.op \in {"for", "zero_grad", "forward", "loss", "backward", "step",
                     "add_running", "no_grad", "eval", "train", "add_test_loss",
                     "exp", "topk", "equals", "add_accuracy", "print", "next", "select"}
    \/ instr.op = "append" /\ instr.arg = "test_losses"

\* a framework call raises (bad input file, out of memory, a version of the
\* framework that rejects the call, ...): nothing in the notebook catches
\* the exception, so the cell stops at this statement
Fault ==
    /\ Running
    /\ FrameworkCall(Prog[pc])
    /\ Raise

NextErr == Next \/ Fault

\* the runs of the notebook in which a framework call may raise
SpecErr == Init /\ [][NextErr]_vars

\* the runs whose loaders yield one example per mini-batch: for every pair
\* of data-set sizes these are the runs with the most mini-batches per epoch
InitLive == Init /\ batch_size = 1

\* the notebook is a sequential script: the interpreter keeps executing the
\* next statement of the running cell for as long as there is one
SpecLive == InitLive /\ [][Next]_vars /\ WF_vars(Next)
\* ================================================================ claims
LastOp(op) == ops # <<>> /\ ops[Len(ops)] = op
InTrainingRun == cell \in TrainingCells
RunComplete == cell \in {"cell20", "done"}

\* the statements of one training mini-batch, in order, up to the end of
\* the loop body
TrainOrder ==
    <<"zero_grad", "forward", "loss", "backward", "step", "add_running", "end">>

\* C1: in both training loops the statements executed on a training
\* mini-batch are, in this order, zero_grad, forward, loss, backward, step,
\* running_loss += loss, and only then does the loop body end; every
\* optimizer.step is immediately preceded by the backward pass of the same
\* mini-batch.
C1_TrainingBatchOrder ==
    /\ InTrainingRun /\ images.src = "trainloader" =>
          \A k \in 1..Len(ops) : k <= Len(TrainOrder) => ops[k] = TrainOrder[k]
    /\ \A k \in 1..Len(ops) : ops[k] = "step" => k > 1 /\ ops[k - 1] = "backward"
    /\ LastOp("step") =>
          upd.from # <<>> /\ upd.from[Len(upd.from)] = images

C1_Witness ==
    /\ cell = "cell14" /\ e = 1 /\ images.src = "trainloader" /\ images.k = 2
    /\ LastOp("add_running") /\ Len(ops) = 6

\* C2: the validation pass is forward-only: no zero_grad, backward or
\* optimizer.step is executed on a test batch, and the parameters stay what
\* they were when the pass started, up to and including its end.
C2_ValidationForwardOnly ==
    /\ InTrainingRun /\ images.src = "testloader" =>
          \A k \in 1..Len(ops) : ops[k] \notin {"zero_grad", "backward", "step"}
    /\ val.started > val.finished => params = val.params
    /\ val.finished > 0 => val.params_end = val.params

C2_Witness ==
    /\ val.epoch = 2 /\ val.finished = 1 /\ val.params > 0
    /\ val.params_end = val.params /\ val.seen = test_n

\* C3: in the dropout training loop every forward pass on a test batch runs
\* in evaluation mode (dropout off) and every forward pass on a training
\* batch runs in train mode (dropout on), in the first and in later epochs.
C3_DropoutModes ==
    fwd.cell = "cell18" =>
        /\ fwd.src = "testloader" => ~fwd.training /\ ~fwd.dropout
        /\ fwd.src = "trainloader" => fwd.training /\ fwd.dropout

C3_Witness ==
    /\ cell = "cell18" /\ val.epoch = 2 /\ LastOp("forward")
    /\ fwd.src = "trainloader" /\ fwd.training /\ fwd.dropout

\* C4: in both training loops the forward pass and the loss computation of
\* every test batch execute with gradient tracking disabled, the forward
\* pass, loss and backward pass of every training batch execute with it
\* enabled, and the no_grad scope is closed when the validation loop is over.
C4_GradTracking ==
    InTrainingRun /\ Running =>
        /\ images.src = "testloader" /\ Prog[pc].op \in {"forward", "add_test_loss"}
              => ~grad_enabled
        /\ images.src = "trainloader" /\ Prog[pc].op \in {"forward", "loss", "backward"}
              => grad_enabled
        /\ fwd.cell = cell /\ fwd.src = "testloader" => ~fwd.grad
        /\ fwd.cell = cell /\ fwd.src = "trainloader" => fwd.grad
        /\ Prog[pc].op \in {"append", "print"} => grad_enabled /\ grad_saved = <<>>

C4_Witness ==
    /\ cell = "cell14" /\ val.epoch = 2 /\ images.src = "trainloader"
    /\ At("backward") /\ grad_enabled /\ loss.req

\* C5: every epoch has exactly one validation pass; it starts only after
\* every mini-batch of the epoch's training loader has been processed and
\* it has finished before a mini-batch of the next epoch is processed.
C5_ValidationOncePerEpoch ==
    /\ val.started <= 1 /\ val.finished <= val.started
    /\ val.started = 1 => val.trained = Len_("trainloader")
    /\ val.epoch = 0 => val.total = 0
    /\ val.epoch > 0 => val.total = val.epoch - 1 + val.finished
    /\ InTrainingRun /\ images.src = "trainloader" /\ Running
       /\ Prog[pc].op \in {"zero_grad", "forward", "loss", "backward", "step", "add_running"}
          => val.started = 0 /\ images.epoch = val.epoch - 1
    /\ RunComplete => val.total = Epochs /\ val.epoch = Epochs

C5_Witness ==
    /\ val.epoch = 2 /\ val.started = 1 /\ val.finished = 1 /\ val.total = 2
    /\ val.trained = 2

\* C6: held-out data: only batches of the training loader reach
\* loss.backward and optimizer.step, and only batches of the test loader
\* contribute to test_loss and to accuracy.
C6_HeldOut ==
    /\ used.backward \subseteq {"trainloader"}
    /\ used.step \subseteq {"trainloader"}
    /\ used.test_loss \subseteq {"testloader"}
    /\ used.accuracy \subseteq {"testloader"}

C6_Witness ==
    /\ used.backward = {"trainloader"} /\ used.step = {"trainloader"}
    /\ used.test_loss = {"testloader"} /\ used.accuracy = {"testloader"}
    /\ val.epoch = 2

\* C7: one metrics line per epoch, numbered 1, 2, ..., epochs in order,
\* showing the training loss, test loss and test accuracy of its epoch, and
\* printed only once the epoch's training batches and validation pass are
\* complete.
C7_MetricsLines ==
    /\ \A i \in 1..Len(printed) :
          /\ printed[i].epoch = i /\ printed[i].epochs = Epochs
          /\ i <= Len(train_losses) /\ printed[i].training_loss = Fmt3(train_losses[i])
          /\ i <= Len(test_losses) /\ printed[i].test_loss = Fmt3(test_losses[i])
    /\ LastOp("print") =>
          printed[Len(printed)].test_accuracy = Fmt3(RDivInt(accuracy, Len_("testloader")))
    /\ Len(printed) \in {val.epoch - 1, val.epoch} \cap 0..Epochs
    /\ Len(printed) = val.epoch /\ val.epoch > 0 =>
          val.finished = 1 /\ val.trained = Len_("trainloader")
    /\ RunComplete => Len(printed) = Epochs

C7_Witness ==
    /\ cell = "done" /\ Len(printed) = Epochs
    /\ printed[1].epoch = 1 /\ printed[Epochs].epoch = Epochs

\* C8 (as claimed): the test accuracy on the metrics line of an epoch is
\* the number of correctly predicted test examples divided by the number of
\* test examples.
C8_PrintedAccuracyIsTotal ==
    LastOp("print") =>
        printed[Len(printed)].test_accuracy = Fmt3(Rat(val.correct, test_n))

\* C9: for a batch of N examples, equals has exactly N entries, entry i
\* being 1 exactly when top_class of example i equals label i, and the
\* accuracy of the batch is the number of such entries divided by N.
Hits == {i \in 1..images.n : top_class.data[i] = labels.data[i]}

C9_EqualsPerExample ==
    /\ LastOp("equals") \/ LastOp("add_accuracy") =>
          /\ Numel(equals) = images.n /\ Len(equals.data) = images.n
          /\ \A i \in 1..images.n :
                equals.data[i] = (IF i \in Hits THEN 1 ELSE 0)
    /\ LastOp("add_accuracy") => val.last = Rat(Cardinality(Hits), images.n)

C9_Witness ==
    /\ LastOp("add_accuracy") /\ images.n = 2 /\ equals.data = <<1, 0>>
    /\ val.last = <<1, 2>>

\* C10: the dropout training run leaves the model in train mode; the
\* forward pass of the inference cell then runs in evaluation mode, with
\* gradient tracking disabled, and leaves the parameters unchanged.
C10_Inference ==
    trained = "cell18" =>
        /\ cell = "cell20" /\ pc = 1 => training
        /\ fwd.cell = "cell20" =>
              /\ ~fwd.training /\ ~fwd.dropout /\ ~fwd.grad
              /\ params = fwd.params /\ params = val.params_end

C10_Witness ==
    /\ trained = "cell18" /\ cell = "done" /\ fwd.cell = "cell20"
    /\ ~fwd.training /\ ~fwd.grad /\ output.shape = <<1, NumClasses>> /\ params > 0

\* the optimizer.step of the current training mini-batch has been made and
\* the body of its loop has not ended yet
StepPending ==
    /\ images.src = "trainloader"
    /\ \E k \in 1..Len(ops) : ops[k] = "step"
    /\ \A k \in 1..Len(ops) : ops[k] # "end"

\* C11: the parameters are changed by optimizer.step and by nothing else:
\* their version is at all times the number of optimizer.step calls made,
\* which is one per training mini-batch processed so far, and a finished
\* training run has made exactly epochs * len(trainloader) of them.
C11_ParamsOnlyByStep ==
    /\ params = upd.count
    /\ val.epoch = 0 => params = 0
    /\ val.epoch > 0 =>
          params = (val.epoch - 1) * Len_("trainloader") + val.trained
                   + (IF StepPending THEN 1 ELSE 0)
    /\ RunComplete => params = Epochs * Len_("trainloader")

C11_Witness ==
    /\ cell = "done" /\ Len_("trainloader") = 2
    /\ params = Epochs * 2 /\ upd.count = params

\* the calls of the last forward pass
Calls == fwd.calls
CallAt(i) == IF i \in 1..Len(Calls) THEN Calls[i].op ELSE "none"

\* C12: a forward pass applies fc1, fc2, fc3, fc4 in this order with widths
\* 784 -> 256 -> 128 -> 64 -> 10, each layer receiving the width the previous
\* call returned; ReLU follows fc1, fc2 and fc3 and nothing else;
\* log-softmax is applied once, last, directly to the output of fc4; the
\* model with dropout applies dropout directly after each of the three
\* ReLUs and nowhere else, the model without dropout applies none.
C12_ForwardLayers ==
    fwd.cell # "none" =>
        /\ TraceOk(Calls)
        /\ SelectSeq(Calls, LAMBDA c : c.op \in Linears)
              = << [op |-> "fc1", in |-> 784, out |-> 256],
                   [op |-> "fc2", in |-> 256, out |-> 128],
                   [op |-> "fc3", in |-> 128, out |-> 64],
                   [op |-> "fc4", in |-> 64, out |-> 10] >>
        /\ Calls[1].op = "view" /\ Calls[1].in = 784
        /\ \A i \in 2..Len(Calls) : Calls[i].in = Calls[i - 1].out
        /\ \A i \in 1..Len(Calls) :
              /\ Calls[i].op = "relu" <=> CallAt(i - 1) \in {"fc1", "fc2", "fc3"}
              /\ Calls[i].op = "log_softmax" <=> CallAt(i - 1) = "fc4"
              /\ Calls[i].op = "log_softmax" => i = Len(Calls) /\ Calls[i].out = 10
              /\ Calls[i].op = "dropout" <=> HasDropout(trained) /\ CallAt(i - 1) = "relu"
        /\ Calls[Len(Calls)].op = "log_softmax"

C12_Witness ==
    /\ trained = "cell18" /\ LastOp("forward") /\ fwd.src = "trainloader"
    /\ Len(Calls) = 12 /\ Calls[4].op = "dropout" /\ Calls[12].op = "log_softmax"

\* the statements that switch the model between train and evaluation mode
ModeSwitch == {"eval", "train"}
Strip(prog) == SelectSeq(prog, LAMBDA i : i.op \notin ModeSwitch)

\* the position in cell 14 that corresponds to position p of cell 18
Pc14(p) == Len(Strip(SubSeq(Cell18, 1, p - 1))) + 1

\* C13: the two training loops are the same script up to the mode switches:
\* cell 18 without its model.eval() and model.train() statements is cell 14,
\* statement for statement, and cell 14 has no mode switch; every step of
\* the dropout loop is either a mode switch, which changes the model's
\* mode and nothing else of the program's state, or executes the statement
\* that cell 14 has at the corresponding position.
C13_SameScript ==
    [][ /\ Strip(Cell18) = Cell14
        /\ Strip(Cell14) = Cell14
        /\ cell = "cell18" /\ Running =>
              IF Prog[pc].op \in ModeSwitch
              THEN /\ Pc14(pc') = Pc14(pc)
                   /\ UNCHANGED <<ctrl_rest, e, iters, data, grad_enabled, grad_saved,
                                  optim, temps, accs, outs, raised, hist>>
              ELSE Cell14[Pc14(pc)] = Prog[pc]
      ]_vars

C13_Witness ==
    /\ cell = "cell18" /\ val.epoch = 2 /\ LastOp("train")
    /\ Len(train_losses) = 2 /\ Len(test_losses) = 2

\* the statements after the train_losses.append of an epoch
AfterTrainAppend ==
    \/ Prog[pc].op = "append" /\ Prog[pc].arg = "test_losses"
    \/ Prog[pc].op \in {"train", "print"}
\* the statements after the test_losses.append of an epoch
AfterTestAppend == Prog[pc].op \in {"train", "print"}

\* C14 (as claimed): when a framework call of a training run raises, the
\* lists train_losses and test_losses have no entry and the output has no
\* metrics line for the epoch in which the error occurred.
C14_NoEntryForFailedEpoch ==
    raised /\ InTrainingRun /\ val.epoch > 0 =>
        /\ Len(train_losses) = val.epoch - 1
        /\ Len(test_losses) = val.epoch - 1
        /\ Len(printed) = val.epoch - 1

\* C14 (amended): when a framework call of a training run raises, the run
\* stops at that statement and no later statement executes; no metrics line
\* is printed for the epoch of the error; train_losses and test_losses have
\* no entry for that epoch when the error is raised before the appends, but
\* an error raised by a statement after an append (the tensor division of
\* the test_losses append, model.train(), the formatting of the metrics
\* line) leaves the entries already appended for that epoch in the lists.
C14_StopsAtError ==
    raised /\ InTrainingRun =>
        /\ ~ENABLED NextErr
        /\ val.epoch > 0 /\ pc <= Len(Prog) /\ FrameworkCall(Prog[pc])
        /\ Len(printed) = val.epoch - 1
        /\ Len(train_losses) = (IF AfterTrainAppend THEN val.epoch ELSE val.epoch - 1)
        /\ Len(test_losses) = (IF AfterTestAppend THEN val.epoch ELSE val.epoch - 1)

C14_Witness ==
    /\ raised /\ cell = "cell18" /\ val.epoch = 2 /\ Prog[pc].op = "print"
    /\ Len(train_losses) = 2 /\ Len(test_losses) = 2 /\ Len(printed) = 1

\* C15: the gradient buffers are zeroed before every backward pass: no
\* gradient is in them when loss.backward() is about to run, after it they
\* hold the gradient of the current mini-batch alone, and every
\* optimizer.step applies the gradient of exactly one mini-batch, the one
\* just processed.
C15_GradientsOfOneBatch ==
    /\ InTrainingRun /\ At("backward") => grads.from = <<>> /\ loss.src = images
    /\ LastOp("backward") => grads.from = <<images>>
    /\ Len(grads.from) <= 1
    /\ upd.count > 0 => Len(upd.from) = 1 /\ upd.from[1].src = "trainloader"
    /\ LastOp("step") => upd.from = <<images>>

C15_Witness ==
    /\ cell = "cell18" /\ val.epoch = 2 /\ images.k = 2 /\ LastOp("step")
    /\ upd.from = <<images>> /\ upd.count = Len_("trainloader") + 2

\* the mini-batches of the current epoch of a loader, in the order drawn
EpochBatches(name) ==
    [k \in 1..Len_(name) |->
        Batch(name, e, k, BatchSizes(LoaderSize(name), batch_size)[k])]
BatchesOf(terms) == [k \in 1..Len(terms) |-> terms[k].batch]
RECURSIVE SumOf(_)
SumOf(terms) ==
    IF terms = <<>> THEN Zero
    ELSE RAdd(SumOf(SubSeq(terms, 1, Len(terms) - 1)), terms[Len(terms)].value)

\* C16: each accumulator is the sum of the terms added since it was last
\* set to 0; when an epoch's values are appended to the lists and printed,
\* running_loss holds one term per training mini-batch of this epoch,
\* test_loss and accuracy one term per test mini-batch of this epoch's
\* validation pass, and no term from an earlier epoch.
C16_PerEpochAccumulators ==
    /\ running_loss = SumOf(used.terms.running_loss)
    /\ test_loss = SumOf(used.terms.test_loss)
    /\ accuracy = SumOf(used.terms.accuracy)
    /\ InTrainingRun /\ (At("append") \/ At("print") \/ LastOp("print")) =>
          /\ BatchesOf(used.terms.running_loss) = EpochBatches("trainloader")
          /\ BatchesOf(used.terms.test_loss) = EpochBatches("testloader")
          /\ BatchesOf(used.terms.accuracy) = EpochBatches("testloader")
    /\ LastOp("print") /\ InTrainingRun =>
          /\ train_losses[Len(train_losses)]
                = RDivInt(SumOf(used.terms.running_loss), Len_("trainloader"))
          /\ test_losses[Len(test_losses)]
                = RDivInt(SumOf(used.terms.test_loss), Len_("testloader"))

C16_Witness ==
    /\ cell = "cell14" /\ e = 1 /\ LastOp("print")
    /\ Len(used.terms.running_loss) = 2 /\ Len(used.terms.accuracy) = 3
    /\ used.terms.running_loss[1].batch.epoch = 1
    /\ used.terms.accuracy[3].batch.epoch = 1

IsPrefix(s, t) == Len(s) <= Len(t) /\ SubSeq(t, 1, Len(s)) = s

\* the first statement of the body of the epoch loop is about to run
EpochStart == InTrainingRun /\ Running /\ pc > 1 /\ Prog[pc - 1].op = "for_epoch"

\* C17: at the start of every epoch train_losses and test_losses have the
\* same length, the number of epochs completed so far; every step leaves
\* the entries they have as they are, adding at most one at the end; after
\* a complete run both have exactly Epochs entries.
C17_LossLists ==
    /\ [](/\ EpochStart => /\ Len(train_losses) = e /\ Len(test_losses) = e
                           /\ e = val.epoch - 1
          /\ RunComplete => Len(train_losses) = Epochs /\ Len(test_losses) = Epochs)
    /\ [][ /\ IsPrefix(train_losses, train_losses')
           /\ IsPrefix(test_losses, test_losses')
           /\ Len(train_losses') <= Len(train_losses) + 1
           /\ Len(test_losses') <= Len(test_losses) + 1 ]_vars

C17_Witness ==
    /\ EpochStart /\ e = 1 /\ Len(train_losses) = 1 /\ Len(test_losses) = 1
    /\ train_losses[1] # test_losses[1]

\* the training cell has run to its end
TrainingEnded == cell = "cell20" /\ pc = 1

\* C18: every run of a training loop terminates; when it has, exactly
\* Epochs epochs have been run, each with one optimizer step per training
\* mini-batch and one validation pass over every test mini-batch and
\* example, and the dropout loop leaves the model in train mode.  Every
\* epoch that prints its line has processed all its training and test
\* mini-batches.
C18_Terminates ==
    /\ <>TrainingEnded
    /\ [](TrainingEnded =>
            /\ val.epoch = Epochs /\ e = Epochs - 1 /\ iters = <<>>
            /\ upd.count = Epochs * Len_("trainloader")
            /\ val.trained = Len_("trainloader")
            /\ val.total = Epochs /\ val.seen = test_n
            /\ Len(used.terms.test_loss) = Len_("testloader")
            /\ trained = "cell18" => training)
    /\ [](InTrainingRun /\ LastOp("print") =>
            /\ val.trained = Len_("trainloader")
            /\ val.finished = 1 /\ val.seen = test_n
            /\ upd.count = val.epoch * Len_("trainloader"))

C18_Witness ==
    /\ TrainingEnded /\ trained = "cell18" /\ training
    /\ Len_("trainloader") = 2 /\ Len_("testloader") = 3
    /\ upd.count = Epochs * 2 /\ val.total = Epochs

\* C19: the comparison result equals is a ByteTensor, for which torch.mean
\* is not implemented; the training loops take the mean only of its
\* conversion to float, for which it is, so the mean type error is never
\* raised in a training run.
C19_MeanOnFloat ==
    InTrainingRun =>
        /\ ~raised
        /\ At("add_accuracy") =>
              /\ equals.dtype = "uint8" /\ ~MeanOk(equals)
              /\ EqualsFloat.dtype = "float32" /\ MeanOk(EqualsFloat)
              /\ EqualsFloat.data = equals.data /\ EqualsFloat.shape = equals.shape
        /\ LastOp("add_accuracy") =>
              used.terms.accuracy[Len(used.terms.accuracy)].value = Mean(EqualsFloat)

C19_Witness ==
    /\ cell = "cell18" /\ val.epoch = 2 /\ LastOp("add_accuracy") /\ ~raised
    /\ equals.dtype = "uint8" /\ images.k = 2 /\ accuracy # Zero
====
